---- MODULE Spec2Model ----
(***************************************************************************)
(* A model of the Param codec of PPEditor: src/src/data.py (bounded reads  *)
(* over byte buffers) and src/src/param/param.py (Field, Entry, Section,   *)
(* Param), driven the way src/src/window.py drives it.                     *)
(*                                                                         *)
(* Bytes are the integers 0..255; a buffer is a sequence of bytes (TLA+    *)
(* sequences are 1-based, Python offsets are 0-based: the byte at Python   *)
(* offset k of buffer b is b[k + 1]).                                      *)
(*                                                                         *)
(* Python values are dynamically typed.  They are modelled as records     *)
(* [t, i, s]: t the Python type, i the integer payload, s the sequence     *)
(* payload (bytes, or the code points of a str).                           *)
(* A call that may raise returns [ok, err, v]; a raise is ok = FALSE and   *)
(* err the exception class.                                                *)
(***************************************************************************)
EXTENDS Integers, Sequences, FiniteSets, TLC

VARIABLES
    param,      \* the Application's Param object (window.py: self.param)
    last,       \* the last call made on it, its arguments and how it ended
    out,        \* the value returned by the last to_bytes call
    edits,      \* Field.set_value calls since the last load
    ops,        \* add_section / add_entry / remove_entry calls since the last load
    din,        \* data.py: the arguments of the read under test
    dout        \* data.py: what the read returned

vars == <<param, last, out, edits, ops, din, dout>>

(***************************************************************************)
(* Python values and exceptions                                            *)
(***************************************************************************)
PyInt(n) == [t |-> "int", i |-> n, s |-> <<>>]
PyBool(n) == [t |-> "bool", i |-> n, s |-> <<>>]
PyBytes(b) == [t |-> "bytes", i |-> 0, s |-> b]
PyStr(cps) == [t |-> "str", i |-> 0, s |-> cps]
PyNone == [t |-> "None", i |-> 0, s |-> <<>>]
\* a bound method object, e.g. field.to_bytes without the call
PyMethod == [t |-> "method", i |-> 0, s |-> <<>>]

Ok(x) == [ok |-> TRUE, err |-> "", v |-> x]
Raise(e) == [ok |-> FALSE, err |-> e, v |-> PyNone]

\* the rest of a computation after a call that may raise: K of the value the
\* call returned, or the exception it raised
Bind(r, K(_)) == IF r.ok THEN K(r.v) ELSE Raise(r.err)

Min(a, b) == IF a < b THEN a ELSE b
Max(a, b) == IF a > b THEN a ELSE b

\* Python's s[a:b] on a sequence: negative indices count from the end, both
\* ends are clamped to the sequence, an empty range gives the empty sequence.
PySlice(s, a, b) ==
    LET n == Len(s)
        lo == IF a < 0 THEN Max(n + a, 0) ELSE Min(a, n)
        hi == IF b < 0 THEN Max(n + b, 0) ELSE Min(b, n)
    IN IF hi <= lo THEN <<>> ELSE [k \in 1..(hi - lo) |-> s[lo + k]]

\* b"\x00" * n (n <= 0 gives b"")
Zeros(n) == IF n <= 0 THEN <<>> ELSE [k \in 1..n |-> 0]

(***************************************************************************)
(* struct.pack / struct.unpack, native byte order of the supported         *)
(* platforms (little-endian), for the format codes the program uses.       *)
(***************************************************************************)
Pow256(k) == CASE k = 0 -> 1 [] k = 1 -> 256 [] k = 2 -> 65536 [] OTHER -> 16777216

FormatCodes == {"I", "i", "H", "h", "B", "b", "?", "c"}

Width(code) ==
    CASE code \in {"I", "i"} -> 4
      [] code \in {"H", "h"} -> 2
      [] OTHER -> 1

Signed(code) == code \in {"i", "h", "b"}

\* the unsigned little-endian value of the bytes b
LeValue(b) ==
    LET RECURSIVE Sum(_)
        Sum(k) == IF k > Len(b) THEN 0 ELSE b[k] * Pow256(k - 1) + Sum(k + 1)
    IN Sum(1)

\* the two's-complement little-endian value of the bytes b (computed from the
\* top byte down, so that no intermediate exceeds the value's own range)
LeSigned(b) ==
    LET n == Len(b)
        top == IF b[n] >= 128 THEN b[n] - 256 ELSE b[n]
    IN top * Pow256(n - 1) + LeValue(SubSeq(b, 1, n - 1))

\* struct.unpack(code, b)[0]: struct.error unless b is exactly Width(code) long
unpack(code, b) ==
    IF code \notin FormatCodes THEN Raise("struct.error")
    ELSE IF Len(b) # Width(code) THEN Raise("struct.error")
    ELSE IF code = "?" THEN Ok(PyBool(IF b[1] = 0 THEN 0 ELSE 1))
    ELSE IF code = "c" THEN Ok(PyBytes(b))
    ELSE IF Signed(code) THEN Ok(PyInt(LeSigned(b)))
    ELSE Ok(PyInt(LeValue(b)))

\* the w little-endian bytes of n, 0 <= n < 256^w
LeBytes(n, w) == [k \in 1..w |-> (n \div Pow256(k - 1)) % 256]

\* whether the integer n is in the range of a format code (every integer of
\* the model is below 2^31, so "I" and "i" only exclude by sign)
CodeFits(code, n) ==
    CASE code = "I" -> n >= 0
      [] code = "i" -> TRUE
      [] code = "H" -> n >= 0 /\ n <= 65535
      [] code = "h" -> n >= -32768 /\ n <= 32767
      [] code = "B" -> n >= 0 /\ n <= 255
      [] code = "b" -> n >= -128 /\ n <= 127
      [] OTHER -> FALSE

\* struct.pack of one item under one format code
pack1(code, x) ==
    IF code \notin FormatCodes THEN Raise("struct.error")
    ELSE IF code = "?" THEN
        \* truth value of any object
        Ok(PyBytes(<<IF x.t = "None" \/ (x.t \in {"int", "bool"} /\ x.i = 0)
                        \/ (x.t \in {"bytes", "str"} /\ x.s = <<>>) THEN 0 ELSE 1>>))
    ELSE IF code = "c" THEN
        IF x.t = "bytes" /\ Len(x.s) = 1 THEN Ok(PyBytes(x.s)) ELSE Raise("struct.error")
    ELSE IF x.t \notin {"int", "bool"} THEN Raise("struct.error")
    ELSE IF ~CodeFits(code, x.i) THEN Raise("struct.error")
    ELSE IF x.i >= 0 THEN Ok(PyBytes(LeBytes(x.i, Width(code))))
    ELSE \* two's complement of a negative value, byte by byte
        LET w == Width(code)
            m == -(x.i + 1)  \* 0 <= m, the bits of m are the complement of the result
        IN Ok(PyBytes([k \in 1..w |-> 255 - ((m \div Pow256(k - 1)) % 256)]))

\* struct.pack(fmt, *args): fmt a sequence of format codes (no padding arises
\* between items of one width).  The item count is checked before any item.
pack(fmt, args) ==
    IF Len(fmt) # Len(args) THEN Raise("struct.error")
    ELSE
        LET RECURSIVE Go(_, _)
            Go(k, acc) ==
                IF k > Len(fmt) THEN Ok(PyBytes(acc))
                ELSE Bind(pack1(fmt[k], args[k]), LAMBDA b : Go(k + 1, acc \o b.s))
        IN Go(1, <<>>)

(***************************************************************************)
(* UTF-8: bytes.decode() and str.encode("utf-8").  A str is the sequence  *)
(* of its code points.                                                     *)
(***************************************************************************)
IsCont(b, k) == k <= Len(b) /\ b[k] >= 128 /\ b[k] <= 191

\* bytes.decode(): UnicodeDecodeError on an invalid start byte, a missing or
\* invalid continuation byte, an overlong form or a surrogate
Utf8Decode(b) ==
    LET RECURSIVE Go(_, _)
        Go(k, acc) ==
            IF k > Len(b) THEN Ok(PyStr(acc))
            ELSE IF b[k] < 128 THEN Go(k + 1, Append(acc, b[k]))
            ELSE IF b[k] >= 194 /\ b[k] <= 223 THEN
                IF IsCont(b, k + 1)
                THEN Go(k + 2, Append(acc, (b[k] - 192) * 64 + (b[k + 1] - 128)))
                ELSE Raise("UnicodeDecodeError")
            ELSE IF b[k] >= 224 /\ b[k] <= 239 THEN
                IF IsCont(b, k + 1) /\ IsCont(b, k + 2)
                   /\ (b[k] = 224 => b[k + 1] >= 160)
                   /\ (b[k] = 237 => b[k + 1] <= 159)
                THEN Go(k + 3, Append(acc, (b[k] - 224) * 4096 + (b[k + 1] - 128) * 64
                                            + (b[k + 2] - 128)))
                ELSE Raise("UnicodeDecodeError")
            ELSE IF b[k] >= 240 /\ b[k] <= 244 THEN
                IF IsCont(b, k + 1) /\ IsCont(b, k + 2) /\ IsCont(b, k + 3)
                   /\ (b[k] = 240 => b[k + 1] >= 144)
                   /\ (b[k] = 244 => b[k + 1] <= 143)
                THEN Go(k + 4, Append(acc, (b[k] - 240) * 262144 + (b[k + 1] - 128) * 4096
                                            + (b[k + 2] - 128) * 64 + (b[k + 3] - 128)))
                ELSE Raise("UnicodeDecodeError")
            ELSE Raise("UnicodeDecodeError")
    IN Go(1, <<>>)

\* the UTF-8 bytes of one code point
Utf8Char(c) ==
    IF c < 128 THEN <<c>>
    ELSE IF c < 2048 THEN <<192 + (c \div 64), 128 + (c % 64)>>
    ELSE IF c < 65536 THEN <<224 + (c \div 4096), 128 + ((c \div 64) % 64), 128 + (c % 64)>>
    ELSE <<240 + (c \div 262144), 128 + ((c \div 4096) % 64),
           128 + ((c \div 64) % 64), 128 + (c % 64)>>

\* str.encode("utf-8")
Utf8Encode(cps) ==
    LET RECURSIVE Go(_)
        Go(k) == IF k > Len(cps) THEN <<>> ELSE Utf8Char(cps[k]) \o Go(k + 1)
    IN Go(1)

(***************************************************************************)
(* src/src/data.py                                                         *)
(***************************************************************************)
\* len(x): TypeError for an object without a length
PyLen(x) == IF x.t \in {"bytes", "str"} THEN Ok(PyInt(Len(x.s))) ELSE Raise("TypeError")

\* a slice the way a plausible slip would write it: fdata[position : size]
read_byte_array_NoBase(fdata, position, size) ==
    LET size2 == IF position + size > Len(fdata) THEN Len(fdata) - position ELSE size
    IN PySlice(fdata, position, size2)

\* read_byte_array on a bytes object fdata (a sequence of bytes)
read_byte_array(fdata, position, size) ==
    LET size2 == IF position + size > Len(fdata) THEN Len(fdata) - position ELSE size
    IN PySlice(fdata, position, position + size2)

\* read_byte_array on any Python value: len(fdata) raises for None
read_byte_array_py(x, position, size) ==
    IF PyLen(x).ok THEN Ok(PyBytes(read_byte_array(x.s, position, size)))
    ELSE Raise("TypeError")

read_uint(fdata, position) == unpack("I", read_byte_array(fdata, position, 4))
read_ushort(fdata, position) == unpack("H", read_byte_array(fdata, position, 2))
read_uchar(fdata, position) == unpack("B", read_byte_array(fdata, position, 1))
read_int(fdata, position) == unpack("i", read_byte_array(fdata, position, 4))
read_short(fdata, position) == unpack("h", read_byte_array(fdata, position, 2))
read_char(fdata, position) == unpack("b", read_byte_array(fdata, position, 1))

\* x & y of Python: defined between integers, TypeError for bytes & int
PyAnd(x, y) ==
    IF x.t \in {"int", "bool"} /\ y.t \in {"int", "bool"} /\ x.i >= 0 /\ y.i >= 0 THEN
        LET RECURSIVE BitAnd(_, _)
            BitAnd(a, b) == IF a = 0 \/ b = 0 THEN 0
                            ELSE (a % 2) * (b % 2) + 2 * BitAnd(a \div 2, b \div 2)
        IN Ok(PyInt(BitAnd(x.i, y.i)))
    ELSE Raise("TypeError")

\* read_bool: the & is applied to the bytes object, before unpack
read_bool(fdata, position) ==
    Bind(PyAnd(PyBytes(read_byte_array(fdata, position, 1)), PyInt(1)),
         LAMBDA masked : IF masked.t # "bytes" THEN Raise("TypeError")
                         ELSE unpack("?", masked.s))

\* read_str: the loop reads one byte at a time through read_uchar until a
\* zero byte; unpack(f"{n}s", ...) of the n collected bytes is those bytes
read_str(fdata, position) ==
    LET RECURSIVE Loop(_, _)
        Loop(offset, string_bytes) ==
            Bind(read_uchar(fdata, position + offset),
                 LAMBDA last_byte :
                    IF last_byte.i # 0
                    THEN Loop(offset + 1, Append(string_bytes, last_byte.i))
                    ELSE Utf8Decode(string_bytes))
    IN Loop(0, <<>>)

\* string_to_bytearray(string, required_size): .encode raises for a non-str;
\* `if required_size` is false for None and for 0
string_to_bytearray(string, required_size) ==
    IF string.t # "str" THEN Raise("AttributeError")
    ELSE LET ba == Utf8Encode(string.s)
         IN IF required_size.t = "int" /\ required_size.i # 0
            THEN Ok(PyBytes(ba \o Zeros(required_size.i - Len(ba))))
            ELSE Ok(PyBytes(ba))

\* replace_byte_array(fdata, position, value): len(value) raises for an object
\* without a length; fdata[position + i] = ... raises IndexError past the end
\* (a negative index counts from the end)
replace_byte_array(fdata, position, value) ==
    IF ~PyLen(value).ok THEN Raise("TypeError")
    ELSE
        LET n == Len(fdata)
            RECURSIVE Go(_, _)
            Go(i, acc) ==
                IF i >= Len(value.s) THEN Ok(PyBytes(acc))
                ELSE LET at == position + i
                         idx == IF at < 0 THEN at + n ELSE at
                     IN IF idx < 0 \/ idx >= n THEN Raise("IndexError")
                        ELSE Go(i + 1, [acc EXCEPT ![idx + 1] = value.s[i + 1]])
        IN Go(0, fdata)

(***************************************************************************)
(* The schema (settings.settings, const): collaborators of the codec whose *)
(* code is not part of the sources at hand.                                *)
(***************************************************************************)
\* const.PARAM_HEADER: the 8-byte magic
PARAM_HEADER == <<80, 65, 82, 65, 77, 0, 0, 0>>

\* one SettingsEntry: the descriptor of a field.  Entry.process_data reads
\* its offset as .address and Entry.to_bytes as .position: both name the
\* descriptor's one offset.
SettingsEntry(type, address, size) ==
    [type |-> type, address |-> address, position |-> address, size |-> size]

\* Settings.get_entries_in_param(id, section): the ordered descriptors of one
\* record of section `section` in a file of kind `id`
get_entries_in_param(id, section) ==
    CASE id = 1 /\ section = 0 ->
            <<SettingsEntry("uint", 0, 4), SettingsEntry("str", 4, 2),
              SettingsEntry("rgba", 6, 2)>>
      [] id = 1 /\ section # 0 ->
            <<SettingsEntry("str", 0, 2), SettingsEntry("ushort", 2, 2)>>
      [] id = 2 ->
            <<SettingsEntry("short", 0, 2), SettingsEntry("char", 2, 1),
              SettingsEntry("uchar", 3, 1), SettingsEntry("int", 0, 4)>>
      [] id = 3 ->
            <<SettingsEntry("bool", 0, 1)>>
      [] OTHER -> <<>>

(***************************************************************************)
(* src/src/param/param.py: Field                                           *)
(***************************************************************************)
\* Field.process_value
process_value(settings, data) ==
    LET type == settings.type
    IN CASE type = "uint" -> read_uint(data, 0)
         [] type = "int" -> read_int(data, 0)
         [] type = "short" -> read_short(data, 0)
         [] type = "ushort" -> read_short(data, 0)
         [] type = "char" -> read_char(data, 0)
         [] type = "uchar" -> read_char(data, 0)
         [] type = "bool" -> read_bool(data, 0)
         [] type = "str" -> read_str(data, 0)
         [] OTHER -> Ok(PyNone)

\* Field.__init__: the object, or the exception process_value raised
Field(id, settings, data) ==
    Bind(process_value(settings, data),
         LAMBDA value :
            Ok([id |-> id, settings |-> settings, raw_data |-> data, value |-> value]))

\* Field.set_value
Field_set_value(self, new_value) == [self EXCEPT !.value = new_value]

\* The name `type` inside Field.to_bytes is not assigned there: it is the
\* builtin class, which equals no string.
builtin_type == "<class 'type'>"

\* Field.to_bytes: no branch returns when none matches, so the call gives None
Field_to_bytes(self) ==
    LET type == builtin_type
    IN CASE type = "uint" -> pack(<<"i">>, <<self.value>>)
         [] type = "int" -> pack(<<"I">>, <<self.value>>)
         [] type = "ushort" -> pack(<<"h">>, <<self.value>>)
         [] type = "short" -> pack(<<"H">>, <<self.value>>)
         [] type = "uchar" -> pack(<<"c">>, <<self.value>>)
         [] type = "char" -> pack(<<"C">>, <<self.value>>)
         [] type = "str" -> string_to_bytearray(self.value, PyInt(self.settings.size))
         [] OTHER -> Ok(PyNone)

(***************************************************************************)
(* Entry                                                                   *)
(***************************************************************************)
\* list.index(x): the 0-based position of the first element equal to x
ListIndex(list, x) == (CHOOSE k \in 1..Len(list) :
                          list[k] = x /\ \A j \in 1..(k - 1) : list[j] # x) - 1

\* Entry.__init__ with Entry.process_data
Entry(id, settings, data) ==
    LET RECURSIVE Go(_, _)
        Go(k, fields) ==
            IF k > Len(settings) THEN
                Ok([id |-> id, settings |-> settings, raw_data |-> data, fields |-> fields])
            ELSE
                LET setting == settings[k]
                    field_data == read_byte_array(data, setting.address, setting.size)
                IN Bind(Field(ListIndex(settings, setting), setting, field_data),
                        LAMBDA field : Go(k + 1, Append(fields, field)))
    IN Go(1, <<>>)

\* Entry.to_bytes: the third argument of replace_byte_array is field.to_bytes,
\* the bound method itself, not the bytes a call of it returns
Entry_to_bytes(self) ==
    LET RECURSIVE Go(_, _)
        Go(k, raw_data) ==
            IF k > Len(self.fields) THEN Ok(PyBytes(raw_data))
            ELSE
                LET field == self.fields[k]
                IN Bind(replace_byte_array(raw_data, field.settings.position, PyMethod),
                        LAMBDA replaced : Go(k + 1, replaced.s))
    IN Go(1, self.raw_data)

(***************************************************************************)
(* Section                                                                 *)
(***************************************************************************)
\* the slice of entry `index` with the stride left out of the offset
EntrySlice_NoStride(data, index, entry_size) == read_byte_array(data, index, entry_size)

\* Section.process_data: the raw bytes of entry `index`
EntrySlice(data, index, entry_size) ==
    read_byte_array(data, index * entry_size, entry_size)

\* Section.__init__ with Section.process_data
Section(id, settings, entry_size, entry_amount, data) ==
    LET RECURSIVE Go(_, _)
        Go(index, entry_list) ==
            IF index >= entry_amount THEN
                Ok([id |-> id, settings |-> settings, entry_size |-> entry_size,
                    entry_amount |-> entry_amount, raw_data |-> data,
                    entry_list |-> entry_list])
            ELSE
                Bind(Entry(index, settings, EntrySlice(data, index, entry_size)),
                     LAMBDA entry : Go(index + 1, Append(entry_list, entry)))
    IN Go(0, <<>>)

\* Section.to_bytes
Section_to_bytes(self) ==
    LET RECURSIVE Go(_, _)
        Go(k, raw_data) ==
            IF k > Len(self.entry_list) THEN Ok(PyBytes(raw_data))
            ELSE Bind(Entry_to_bytes(self.entry_list[k]),
                      LAMBDA b : Go(k + 1, raw_data \o b.s))
    IN Go(1, <<>>)

(***************************************************************************)
(* Param                                                                   *)
(***************************************************************************)
\* an attribute no statement has assigned yet
Unset == [t |-> "unset", i |-> 0, s |-> <<>>]

\* the result of a method of Param: how it ended, the object as it was left,
\* and the values the data cursor of process_data took
Done(self, cursor) == [ok |-> TRUE, err |-> "", v |-> self, cursor |-> cursor]
Left(e, self, cursor) == [ok |-> FALSE, err |-> e, v |-> self, cursor |-> cursor]

\* the rest of a method after a call that may raise: the exception leaves the
\* method with the object as it is at that point
Try(r, self, cursor, K(_)) == IF r.ok THEN K(r.v) ELSE Left(r.err, self, cursor)

\* one method of Param after another: an exception of the first leaves both
Then(r, K(_)) == IF r.ok THEN K(r.v) ELSE r

\* set_default_values that keeps the section list
set_default_values_KeepSections(self) ==
    [self EXCEPT !.ptr = PyNone, !.unk = PyNone, !.sections = PyNone,
                 !.unk2 = PyNone, !.id = PyNone,
                 !.entry_list = <<>>, !.is_modified = FALSE]

\* Param.set_default_values (raw_data is not among the attributes it resets)
set_default_values(self) ==
    [self EXCEPT !.ptr = PyNone, !.unk = PyNone, !.sections = PyNone,
                 !.unk2 = PyNone, !.id = PyNone,
                 !.section_list = <<>>,
                 !.entry_list = <<>>, !.is_modified = FALSE]

\* Param.process_header: five assignments in order; a read that raises leaves
\* the later attributes as they were
process_header(self, data) ==
    Try(read_uint(data, 8), self, <<>>, LAMBDA ptr :
        LET s2 == [self EXCEPT !.ptr = ptr,
                               !.unk = PyBytes(read_byte_array(data, 12, 4))]
        IN Try(read_uint(data, 16), s2, <<>>, LAMBDA sections :
            LET s4 == [s2 EXCEPT !.sections = sections,
                                 !.unk2 = PyBytes(read_byte_array(data, 20, 8))]
            IN Try(read_uint(data, 24), s4, <<>>, LAMBDA id :
                Done([s4 EXCEPT !.id = id], <<>>))))

\* the cursor assigned, not advanced: data_index = len(raw_data)
NextDataIndex_Assigned(data_index, raw_data, section_entries, section_size) ==
    Len(raw_data)

\* Param.process_data: data_index += len(raw_data)
NextDataIndex(data_index, raw_data, section_entries, section_size) ==
    data_index + Len(raw_data)

\* the body of the loop of Param.process_data once the payload is sliced:
\* the Section is appended and the cursor advanced
AppendSection(obj, section, section_size, section_entries, raw_data, data_index, cursor,
              K(_, _, _)) ==
    Try(Section(section, get_entries_in_param(obj.id.i, section), section_size,
                section_entries, raw_data),
        obj, cursor,
        LAMBDA sec :
            K([obj EXCEPT !.section_list = Append(@, sec)],
              NextDataIndex(data_index, raw_data, section_entries, section_size),
              Append(cursor, NextDataIndex(data_index, raw_data, section_entries,
                                           section_size))))

\* Param.process_data.  `cursor` records the values data_index takes: before
\* the first section and after each section appended.
process_data(self, data) ==
    LET RECURSIVE Go(_, _, _, _, _)
        Go(section, section_index, data_index, obj, cursor) ==
            IF section >= obj.sections.i THEN Done(obj, cursor)
            ELSE
                Try(read_uint(data, section_index), obj, cursor, LAMBDA section_entries :
                Try(read_uint(data, section_index + 4), obj, cursor, LAMBDA section_size :
                    AppendSection(obj, section, section_size.i, section_entries.i,
                                  read_byte_array(data, data_index,
                                                  section_entries.i * section_size.i),
                                  data_index, cursor,
                                  LAMBDA obj2, next, cursor2 :
                                      Go(section + 1, section_index + 8, next, obj2,
                                         cursor2))))
    IN Go(0, 32, self.ptr.i, [self EXCEPT !.raw_data = PyBytes(data)], <<self.ptr.i>>)

\* data == b""
IsEmptyBytes(data) == data.t = "bytes" /\ data.s = <<>>

\* the body shared by the two entry points once the gate has let data through
Decode(self, data) ==
    Then(process_header(self, data.s), LAMBDA obj : process_data(obj, data.s))

\* Param.__init__(data, settings).  A raise in the constructor leaves no
\* object; v is then the object as it was when the exception left it.
Param(data, settings) ==
    LET self == set_default_values(
                    [settings |-> settings, ptr |-> Unset, unk |-> Unset,
                     sections |-> Unset, unk2 |-> Unset, id |-> Unset,
                     section_list |-> <<>>, entry_list |-> <<>>,
                     is_modified |-> FALSE, raw_data |-> Unset])
    IN IF data.t = "None" \/ IsEmptyBytes(data) THEN Done(self, <<>>)
       ELSE IF read_byte_array(data.s, 0, 8) # PARAM_HEADER THEN Done(self, <<>>)
       ELSE Decode(self, data)

\* load_from_data with the defaults set before the gate, as in __init__
load_from_data_ResetFirst(self, data) ==
    IF IsEmptyBytes(data) THEN Done(set_default_values(self), <<>>)
    ELSE Try(read_byte_array_py(data, 0, 8), set_default_values(self), <<>>,
             LAMBDA magic :
                IF magic.s # PARAM_HEADER THEN Done(set_default_values(self), <<>>)
                ELSE Decode(set_default_values(self), data))

\* Param.load_from_data(data): the gate returns before set_default_values;
\* read_byte_array(None, ...) raises at len(fdata)
load_from_data(self, data) ==
    IF IsEmptyBytes(data) THEN Done(self, <<>>)
    ELSE Try(read_byte_array_py(data, 0, 8), self, <<>>,
             LAMBDA magic :
                IF magic.s # PARAM_HEADER THEN Done(self, <<>>)
                ELSE Decode(set_default_values(self), data))

\* file += self.unk2: bytes + None raises
PyConcat(file, x) == IF x.t = "bytes" THEN Ok(PyBytes(file \o x.s)) ELSE Raise("TypeError")

\* Param.to_bytes
Param_to_bytes(self) ==
    LET RECURSIVE Go(_, _, _)
        Go(k, file, section_data) ==
            IF k > Len(self.section_list) THEN Ok(PyBytes(file \o section_data))
            ELSE
                Bind(pack(<<"I", "I">>, <<PyInt(self.section_list[k].entry_amount),
                                          PyInt(self.section_list[k].entry_size)>>),
                     LAMBDA d :
                Bind(Section_to_bytes(self.section_list[k]),
                     LAMBDA p : Go(k + 1, file \o d.s, section_data \o p.s)))
    IN Bind(pack(<<"I", "I", "I", "I">>, <<self.ptr, self.unk, self.sections>>),
            LAMBDA head :
       Bind(PyConcat(PARAM_HEADER \o head.s, self.unk2),
            LAMBDA file :
       Bind(pack(<<"I">>, <<self.id>>),
            LAMBDA tail : Go(1, file.s \o tail.s, <<>>))))

(***************************************************************************)
(* The structural operations window.py calls (Param.add_section,           *)
(* Section.add_entry, Section.remove_entry) are not defined in the         *)
(* param.py at hand; they follow their description in the specification.   *)
(***************************************************************************)
\* Param.add_section(entry_size, entry_count): a zero-filled section is
\* appended and the section count incremented
add_section(self, entry_size, entry_count) ==
    LET index == Len(self.section_list)
    IN Try(Section(index, get_entries_in_param(self.id.i, index), entry_size,
                   entry_count, Zeros(entry_size * entry_count)),
           self, <<>>,
           LAMBDA sec : Done([self EXCEPT !.section_list = Append(@, sec),
                                          !.sections = PyInt(@.i + 1)], <<>>))

\* Section.add_entry(): a zero-filled entry is appended, entry_amount incremented
add_entry(section) ==
    Try(Entry(Len(section.entry_list), section.settings, Zeros(section.entry_size)),
        section, <<>>,
        LAMBDA entry : Done([section EXCEPT !.entry_list = Append(@, entry),
                                            !.entry_amount = @ + 1], <<>>))

\* Section.remove_entry(entry): the entry at 1-based position k is deleted, the
\* later entries move down by one, entry_amount is decremented
remove_entry(section, k) ==
    LET old == section.entry_list
        kept == [j \in 1..(Len(old) - 1) |->
                    IF j < k THEN old[j] ELSE [old[j + 1] EXCEPT !.id = @ - 1]]
    IN [section EXCEPT !.entry_list = kept, !.entry_amount = @ - 1]

(***************************************************************************)
(* The byte buffers the model loads: files laid out as process_header and  *)
(* process_data read them, whole, cut short, with a gap before the         *)
(* payload, or with a wrong magic.  Every byte is below 128, so that every *)
(* 4-byte value read from a file is below 2^31.                            *)
(***************************************************************************)
MaxEntries == 2     \* entries per section of a generated file
MaxSteps == 2       \* edits and structural operations between two loads

u32(n) == LeBytes(n, 4)

\* the section directories of the generated files: <<count, size>> pairs
OneSection(n) == <<[n |-> n, s |-> 8]>>
TwoSections(n) == <<[n |-> 1, s |-> 8], [n |-> n, s |-> 4]>>

Dirs == {<<>>} \cup {OneSection(n) : n \in 1..MaxEntries}
               \cup {TwoSections(n) : n \in 1..MaxEntries}

DirBytes(dir) ==
    LET RECURSIVE Go(_)
        Go(k) == IF k > Len(dir) THEN <<>>
                 ELSE u32(dir[k].n) \o u32(dir[k].s) \o Go(k + 1)
    IN Go(1)

PayloadLen(dir) ==
    LET RECURSIVE Go(_)
        Go(k) == IF k > Len(dir) THEN 0 ELSE dir[k].n * dir[k].s + Go(k + 1)
    IN Go(1)

\* payload byte k (0-based) of fill pattern pat
Pattern(pat, k) ==
    IF pat = 1 THEN <<5, 0, 0, 0, 65, 0, 3, 4>>[(k % 8) + 1]
    ELSE <<66, 0, 1, 0, 67, 68, 2, 1>>[(k % 8) + 1]

Payload(pat, n) == [k \in 1..n |-> Pattern(pat, k - 1)]

\* a whole file: magic, data pointer, 4 opaque bytes, section count, bytes
\* 0x14..0x17, record kind id, bytes 0x1C..0x1F, directory, gap, payload
MkFile(magic, id, dir, gap, pat) ==
    magic \o u32(32 + 8 * Len(dir) + gap) \o <<1, 2, 3, 4>> \o u32(Len(dir))
          \o <<7, 7, 7, 7>> \o u32(id) \o <<9, 9, 9, 9>>
          \o DirBytes(dir) \o Zeros(gap) \o Payload(pat, PayloadLen(dir))

BadMagic == [PARAM_HEADER EXCEPT ![8] = 1]

\* the first `keep` bytes of a file
Cut(file, keep) == SubSeq(file, 1, Min(keep, Len(file)))

WholeFiles ==
    {MkFile(PARAM_HEADER, id, dir, 0, 1) : id \in 0..3, dir \in Dirs}
    \cup {MkFile(PARAM_HEADER, 1, OneSection(1), 0, 2)}

\* lengths that end a file inside the magic, inside each part of the header,
\* inside the directory, and inside the payload of each section
KeepLens == {3, 10, 18, 26, 46, 54, 62}

CutFiles ==
    {Cut(MkFile(PARAM_HEADER, id, TwoSections(MaxEntries), 0, 1), keep) :
        id \in 0..1, keep \in KeepLens}

OtherFiles ==
    {MkFile(PARAM_HEADER, 0, TwoSections(MaxEntries), 4, 1),
     MkFile(BadMagic, 1, OneSection(1), 0, 1)}

\* what a caller may pass as data: None, b"" or a buffer
Inputs ==
    {PyNone, PyBytes(<<>>)} \cup {PyBytes(f) : f \in WholeFiles \cup CutFiles \cup OtherFiles}

\* the files of the editor session
SessionInputs ==
    {PyNone, PyBytes(<<>>),
     PyBytes(MkFile(BadMagic, 1, OneSection(1), 0, 1)),
     PyBytes(MkFile(PARAM_HEADER, 1, OneSection(MaxEntries), 0, 1)),
     PyBytes(MkFile(PARAM_HEADER, 0, TwoSections(MaxEntries), 0, 1)),
     PyBytes(MkFile(PARAM_HEADER, 1, OneSection(1), 0, 2)),
     PyBytes(Cut(MkFile(PARAM_HEADER, 1, TwoSections(MaxEntries), 0, 1), 18))}

\* what a caller may pass to Field.set_value
NewValues == {PyInt(9), PyStr(<<90>>)}

(***************************************************************************)
(* The editor session: one Param object, loaded, edited and encoded.       *)
(***************************************************************************)
\* the record of a call: its name and arguments, how it ended, the cursor
\* values of process_data, and how many edits and structural operations the
\* Param had taken since its last load when the call was made
Call(op, data, sec, ent, fld, r) ==
    [op |-> op, data |-> data, sec |-> sec, ent |-> ent, fld |-> fld,
     ok |-> r.ok, err |-> r.err, cursor |-> r.cursor, pre |-> <<edits, ops>>]

FirstCall(op, data, r) ==
    [op |-> op, data |-> data, sec |-> 0, ent |-> 0, fld |-> 0,
     ok |-> r.ok, err |-> r.err, cursor |-> r.cursor, pre |-> <<0, 0>>]

Plain(r) == [ok |-> r.ok, err |-> r.err, cursor |-> <<>>]

NoRead == [op |-> "", buf |-> <<>>, pos |-> 0, size |-> 0]

\* self.param = Param(data, self.settings) (window.py line 45 passes None).
\* A constructor that raises gives no object, so no state.
Construct(S) ==
    \E data \in S : \E r \in {Param(data, "settings")} :
           /\ r.ok
           /\ param = r.v
           /\ last = FirstCall("Param", data, r)
           /\ out = Ok(PyNone)
           /\ edits = 0
           /\ ops = 0
           /\ din = NoRead
           /\ dout = Ok(PyNone)

Init == Construct(SessionInputs)

InitDecode == Construct(Inputs)

\* window.py load_param_file: self.param.load_from_data(data)
LoadFromData(S) ==
    \E data \in S : \E r \in {load_from_data(param, data)} :
           /\ param' = r.v
           /\ last' = Call("load_from_data", data, 0, 0, 0, r)
           /\ out' = Ok(PyNone)
           /\ edits' = IF r.v = param THEN edits ELSE 0
           /\ ops' = IF r.v = param THEN ops ELSE 0
           /\ UNCHANGED <<din, dout>>

Load == LoadFromData(SessionInputs)

LoadAny == LoadFromData(Inputs)

\* the positions (1-based) of the sections, entries and fields of the Param
SecIdx == 1..Len(param.section_list)
EntIdx(s) == 1..Len(param.section_list[s].entry_list)
FldIdx(s, e) == 1..Len(param.section_list[s].entry_list[e].fields)

\* a field editor widget: field.set_value(new_value)
SetValue ==
    /\ edits + ops < MaxSteps
    /\ \E s \in SecIdx : \E e \in EntIdx(s) : \E f \in FldIdx(s, e) : \E v \in NewValues :
        /\ param' = [param EXCEPT !.section_list[s].entry_list[e].fields[f] =
                                    Field_set_value(@, v)]
        /\ last' = Call("set_value", v, s, e, f, Plain(Ok(PyNone)))
    /\ out' = Ok(PyNone)
    /\ edits' = edits + 1
    /\ UNCHANGED <<ops, din, dout>>

\* window.py save_param_file: self.param.to_bytes()
ParamToBytes ==
    /\ out' = Param_to_bytes(param)
    /\ last' = Call("Param.to_bytes", PyNone, 0, 0, 0, Plain(out'))
    /\ UNCHANGED <<param, edits, ops, din, dout>>

\* window.py update_selected_entry, copy_entry, edit_raw_data: entry.to_bytes()
EntryToBytes ==
    /\ \E s \in SecIdx : \E e \in EntIdx(s) :
        /\ out' = Entry_to_bytes(param.section_list[s].entry_list[e])
        /\ last' = Call("Entry.to_bytes", PyNone, s, e, 0, Plain(out'))
    /\ UNCHANGED <<param, edits, ops, din, dout>>

\* window.py add_section: size > 0 and count >= 0 are checked by the caller
AddSection ==
    /\ edits + ops < MaxSteps
    /\ param.sections.t = "int" /\ param.id.t = "int"
    /\ \E size \in {4, 8} : \E count \in 0..1 :
       \E r \in {add_section(param, size, count)} :
           /\ param' = r.v
           /\ last' = Call("add_section", PyNone, Len(param.section_list) + 1, count, size,
                           Plain(r))
    /\ out' = Ok(PyNone)
    /\ ops' = ops + 1
    /\ UNCHANGED <<edits, din, dout>>

\* window.py add_entry: current_section.add_entry()
AddEntry ==
    /\ edits + ops < MaxSteps
    /\ \E s \in SecIdx : \E r \in {add_entry(param.section_list[s])} :
           /\ param' = [param EXCEPT !.section_list[s] = r.v]
           /\ last' = Call("add_entry", PyNone, s, 0, 0, Plain(r))
    /\ out' = Ok(PyNone)
    /\ ops' = ops + 1
    /\ UNCHANGED <<edits, din, dout>>

\* window.py remove_entry: current_section.remove_entry(current_entry)
RemoveEntry ==
    /\ edits + ops < MaxSteps
    /\ \E s \in SecIdx : \E e \in EntIdx(s) :
        /\ param' = [param EXCEPT !.section_list[s] = remove_entry(@, e)]
        /\ last' = Call("remove_entry", PyNone, s, e, 0, Plain(Ok(PyNone)))
    /\ out' = Ok(PyNone)
    /\ ops' = ops + 1
    /\ UNCHANGED <<edits, din, dout>>

Next ==
    \/ Load
    \/ SetValue
    \/ ParamToBytes
    \/ EntryToBytes
    \/ AddSection
    \/ AddEntry
    \/ RemoveEntry

\* the editor session
Spec == Init /\ [][Next]_vars

NextDecode ==
    \/ LoadAny
    \/ ParamToBytes
    \/ EntryToBytes

\* decoding alone, over every generated buffer
SpecDecode == InitDecode /\ [][NextDecode]_vars

(***************************************************************************)
(* data.py on its own: one read applied to a buffer, a position and a size *)
(***************************************************************************)
MaxLen == 4         \* bytes in a buffer under read

\* 0, "A", and the two bytes of U+00E9, each of which alone is invalid UTF-8
DataBytes == {0, 65, 195, 169}

\* the buffers up to MaxLen bytes; from the fourth byte on the bytes are below
\* 128, so that every 4-byte value read is below 2^31
Buffers ==
    LET RECURSIVE Seqs(_)
        Seqs(n) == IF n = 0 THEN {<<>>}
                   ELSE {Append(b, x) : b \in Seqs(n - 1),
                                        x \in {y \in DataBytes : n < 4 \/ y < 128}}
    IN UNION {Seqs(n) : n \in 0..MaxLen}

InitData ==
    /\ param = Param(PyNone, "settings").v
    /\ last = FirstCall("Param", PyNone, Param(PyNone, "settings"))
    /\ out = Ok(PyNone)
    /\ edits = 0
    /\ ops = 0
    /\ \E buf \in Buffers : \E pos \in 0..(MaxLen + 1) : \E size \in 0..(MaxLen + 1) :
        din = [op |-> "", buf |-> buf, pos |-> pos, size |-> size]
    /\ dout = Ok(PyNone)

ReadByteArray ==
    /\ din.op = ""
    /\ din' = [din EXCEPT !.op = "read_byte_array"]
    /\ dout' = Ok(PyBytes(read_byte_array(din.buf, din.pos, din.size)))
    /\ UNCHANGED <<param, last, out, edits, ops>>

\* the fixed-width read called `name`
ReadNamed(name, fdata, position) ==
    CASE name = "read_uint" -> read_uint(fdata, position)
      [] name = "read_ushort" -> read_ushort(fdata, position)
      [] name = "read_uchar" -> read_uchar(fdata, position)
      [] name = "read_int" -> read_int(fdata, position)
      [] name = "read_short" -> read_short(fdata, position)
      [] name = "read_char" -> read_char(fdata, position)
      [] OTHER -> read_bool(fdata, position)

IntReads == {"read_uint", "read_ushort", "read_uchar", "read_int", "read_short", "read_char"}

\* the bytes a fixed-width read asks read_byte_array for
ReadWidth(name) ==
    CASE name \in {"read_uint", "read_int"} -> 4
      [] name \in {"read_ushort", "read_short"} -> 2
      [] OTHER -> 1

ReadFixed ==
    /\ din.op = ""
    /\ \E name \in IntReads \cup {"read_bool"} :
        /\ din' = [din EXCEPT !.op = name]
        /\ dout' = ReadNamed(name, din.buf, din.pos)
    /\ UNCHANGED <<param, last, out, edits, ops>>

ReadStr ==
    /\ din.op = ""
    /\ din' = [din EXCEPT !.op = "read_str"]
    /\ dout' = read_str(din.buf, din.pos)
    /\ UNCHANGED <<param, last, out, edits, ops>>

NextData ==
    \/ ReadByteArray
    \/ ReadFixed
    \/ ReadStr

\* the reads of data.py over every buffer, position and size within the bounds
SpecData == InitData /\ [][NextData]_vars

(***************************************************************************)
(* One Field on its own: built from the bytes Entry.process_data hands it, *)
(* given a new value, and encoded.  Here din is the call made (with the    *)
(* descriptor's type and size, the field's bytes and the argument), dout   *)
(* the Field or the result of string_to_bytearray, and out what            *)
(* Field.to_bytes gave.                                                    *)
(***************************************************************************)
\* the type tags process_value knows, and one it does not
FieldTypes == {"uint", "int", "ushort", "short", "uchar", "char", "bool", "str", "rgba"}

\* descriptor sizes
FieldSizes == {1, 2, 4}

\* values a field editor may set: texts whose encoding is shorter than, as
\* long as and longer than a descriptor size (U+00E9 encodes to two bytes),
\* and integers
FieldValues ==
    {PyStr(<<>>), PyStr(<<90>>), PyStr(<<233>>), PyStr(<<65, 66, 67>>),
     PyStr(<<65, 66, 67, 68, 69>>), PyInt(9), PyInt(-1)}

\* Entry.process_data gives a Field read_byte_array(data, address, size): at
\* most `size` bytes
InitField ==
    /\ param = Param(PyNone, "settings").v
    /\ last = FirstCall("Param", PyNone, Param(PyNone, "settings"))
    /\ out = Ok(PyNone)
    /\ edits = 0
    /\ ops = 0
    /\ \E type \in FieldTypes : \E size \in FieldSizes :
       \E buf \in {b \in Buffers : Len(b) <= size} :
        din = [op |-> "", type |-> type, size |-> size, buf |-> buf,
               arg |-> PyNone, edited |-> FALSE]
    /\ dout = Ok(PyNone)

\* Field(id, settings, data)
NewField ==
    /\ din.op = ""
    /\ din' = [din EXCEPT !.op = "Field"]
    /\ dout' = Field(0, SettingsEntry(din.type, 0, din.size), din.buf)
    /\ UNCHANGED <<param, last, out, edits, ops>>

\* field.set_value(new_value)
FieldSetValue ==
    /\ din.op = "Field"
    /\ dout.ok
    /\ \E v \in FieldValues :
        /\ din' = [din EXCEPT !.op = "Field.set_value", !.arg = v, !.edited = TRUE]
        /\ dout' = Ok(Field_set_value(dout.v, v))
    /\ UNCHANGED <<param, last, out, edits, ops>>

\* field.to_bytes()
FieldToBytes ==
    /\ din.op \in {"Field", "Field.set_value"}
    /\ dout.ok
    /\ din' = [din EXCEPT !.op = "Field.to_bytes"]
    /\ out' = Field_to_bytes(dout.v)
    /\ UNCHANGED <<param, last, edits, ops, dout>>

\* string_to_bytearray(value, size), the call of the "str" branch of
\* Field.to_bytes
StringToBytearray ==
    /\ din.op = ""
    /\ din.type = "str"
    /\ \E v \in FieldValues :
        /\ din' = [din EXCEPT !.op = "string_to_bytearray", !.arg = v]
        /\ dout' = string_to_bytearray(v, PyInt(din.size))
    /\ UNCHANGED <<param, last, out, edits, ops>>

NextField ==
    \/ NewField
    \/ FieldSetValue
    \/ FieldToBytes
    \/ StringToBytearray

\* a Field over every type tag, descriptor size and field bytes within the bounds
SpecField == InitField /\ [][NextField]_vars

(***************************************************************************)
(* Reference readings of a buffer, written on the bytes themselves and     *)
(* used by the properties below.                                           *)
(***************************************************************************)
\* the bytes b[a .. min(a + n, len b)) of a buffer, a and n not negative
BytesAt(b, a, n) == SubSeq(b, a + 1, Min(a + n, Len(b)))

\* the little-endian u32 at offset a of a buffer that holds it
U32At(b, a) == b[a + 1] + 256 * b[a + 2] + 65536 * b[a + 3] + 16777216 * b[a + 4]

\* the bytes from offset a up to the first zero byte, or to the end
UpToZero(b, a) ==
    LET zeros == {k \in (a + 1)..Len(b) : b[k] = 0}
        stop == IF zeros = {} THEN Len(b) + 1
                ELSE CHOOSE k \in zeros : \A j \in zeros : k <= j
    IN SubSeq(b, a + 1, stop - 1)

(***************************************************************************)
(* Properties of data.py (checked under SpecData)                          *)
(***************************************************************************)
\* C9: read_byte_array(buffer, position, size), position and size not
\* negative, never fails and returns exactly the bytes
\* buffer[position .. min(position + size, len(buffer))), whose number is
\* max(0, min(size, len(buffer) - position)); and a fixed-width integer read
\* whose range was clamped to fewer bytes than its width is an error.
C9_ClampedRead ==
    /\ din.op = "read_byte_array" =>
        /\ dout.ok
        /\ dout.v.t = "bytes"
        /\ Len(dout.v.s) = Max(0, Min(din.size, Len(din.buf) - din.pos))
        /\ \A k \in 1..Len(dout.v.s) :
              /\ din.pos + k <= Min(din.pos + din.size, Len(din.buf))
              /\ dout.v.s[k] = din.buf[din.pos + k]
    /\ (din.op \in IntReads /\ Len(din.buf) - din.pos < ReadWidth(din.op)) =>
        /\ ~dout.ok
        /\ dout.err = "struct.error"

\* a read of more bytes than remain, of which some do remain
C9_Witness ==
    /\ din.op = "read_byte_array"
    /\ din.pos < Len(din.buf)
    /\ din.pos + din.size > Len(din.buf)
    /\ dout.ok
    /\ Len(dout.v.s) = Len(din.buf) - din.pos

\* C10: read_str(buffer, offset) returns the text of the bytes from offset up
\* to and excluding the first zero byte, or up to the end of the buffer when no
\* zero byte follows; the end of the buffer without a zero byte is no error.
C10_ReadStrToEnd ==
    din.op = "read_str" => dout = Utf8Decode(UpToZero(din.buf, din.pos))

(***************************************************************************)
(* Properties of the codec (checked under Spec and SpecDecode)             *)
(***************************************************************************)
\* data is absent, empty, or its first 8 bytes are not the magic
Rejected(data) == data.t = "None" \/ BytesAt(data.s, 0, 8) # PARAM_HEADER

\* the Empty state: every header scalar unset, no section
IsEmpty(self) ==
    /\ self.ptr = PyNone /\ self.unk = PyNone /\ self.sections = PyNone
    /\ self.unk2 = PyNone /\ self.id = PyNone
    /\ self.section_list = <<>>

\* the last call decoded last.data into the sections the Param now holds
JustDecoded == last.op \in {"Param", "load_from_data"} /\ Len(last.cursor) > 0

\* the Param is what its last load made of the buffer it keeps: decoded
\* without an exception, and neither edited nor restructured since
Untouched ==
    /\ param.raw_data.t = "bytes"
    /\ edits = 0 /\ ops = 0
    /\ \E r \in {Param(param.raw_data, "settings")} : r.ok /\ r.v = param

\* C1: for a buffer that passes the magic check and is decoded into a Param
\* with no mutation afterwards, Param.to_bytes() returns, without raising, a
\* buffer identical to the buffer decoded.
C1_RoundTrip ==
    (last.op = "Param.to_bytes" /\ Untouched /\ ~Rejected(param.raw_data)) =>
        (out.ok /\ out.v = param.raw_data)

\* C2 as claimed: after Param(data, settings) or load_from_data(data), from any
\* prior state, with data absent, empty or without the magic, no exception was
\* raised and the Param is Empty.
C2_RejectedGivesEmpty ==
    (last.op \in {"Param", "load_from_data"} /\ Rejected(last.data)) =>
        (last.ok /\ IsEmpty(param))

\* C2 as the code has it: the constructor gives the Empty state, without
\* raising, for data that is absent, empty or without the magic;
\* load_from_data of empty data or data without the magic raises nothing and
\* leaves the Param as it was before the call; load_from_data(None) raises
\* TypeError and leaves the Param as it was.
C2_RejectedLeavesParam ==
    /\ []((last.op = "Param" /\ Rejected(last.data)) => (last.ok /\ IsEmpty(param)))
    /\ [][(last'.op = "load_from_data" /\ Rejected(last'.data)) =>
            /\ param' = param
            /\ last'.ok = (last'.data.t # "None")
            /\ (~last'.ok => last'.err = "TypeError")]_vars

\* a rejected load_from_data on a Param that holds sections
C2_Witness ==
    /\ last.op = "load_from_data"
    /\ last.data.t = "bytes"
    /\ Rejected(last.data)
    /\ last.ok
    /\ param.section_list # <<>>

\* the fields of an entry whose value is not the value decoded from its bytes
Mutated(entry) ==
    {k \in 1..Len(entry.fields) :
        \E r \in {process_value(entry.fields[k].settings, entry.fields[k].raw_data)} :
            ~r.ok \/ r.v # entry.fields[k].value}

\* the entry the last Entry.to_bytes call was made on
LastEntry == param.section_list[last.sec].entry_list[last.ent]

\* C3: after set_value on one field f of an Entry and then Entry.to_bytes(),
\* the result is as long as the Entry's raw bytes and equals them at every
\* index outside [f.offset, f.offset + f.size).
C3_PatchLocality ==
    (last.op = "Entry.to_bytes" /\ Cardinality(Mutated(LastEntry)) = 1) =>
        /\ out.ok
        /\ out.v.t = "bytes"
        /\ Len(out.v.s) = Len(LastEntry.raw_data)
        /\ \A f \in Mutated(LastEntry) : \A k \in 1..Len(LastEntry.raw_data) :
              (k - 1 < LastEntry.fields[f].settings.address
               \/ k - 1 >= LastEntry.fields[f].settings.address
                           + LastEntry.fields[f].settings.size)
              => out.v.s[k] = LastEntry.raw_data[k]

\* C4: Entry.to_bytes() of an Entry decoded under any list of descriptors, no
\* field mutated, returns exactly the Entry's raw bytes.
C4_EntryRoundTrip ==
    (last.op = "Entry.to_bytes" /\ Mutated(LastEntry) = {}) =>
        (out.ok /\ out.v = PyBytes(LastEntry.raw_data))

\* the sum over the sections of entries * entry size
LivePayloadLen(self) ==
    LET RECURSIVE Go(_)
        Go(k) == IF k > Len(self.section_list) THEN 0
                 ELSE Len(self.section_list[k].entry_list) * self.section_list[k].entry_size
                      + Go(k + 1)
    IN Go(1)

\* C5: after add_section / add_entry / remove_entry on a loaded Param, the
\* output of Param.to_bytes() has, for every section i, a directory entry
\* count equal to the number of entries now in section i, and a payload after
\* the directory as long as the sum of entry_count * entry_size.
C5_DirectoryConsistency ==
    (last.op = "Param.to_bytes" /\ ops > 0 /\ param.id.t = "int") =>
        /\ out.ok
        /\ out.v.t = "bytes"
        /\ Len(out.v.s) = 32 + 8 * Len(param.section_list) + LivePayloadLen(param)
        /\ \A i \in 1..Len(param.section_list) :
              U32At(out.v.s, 32 + 8 * (i - 1)) = Len(param.section_list[i].entry_list)

\* first 8 bytes are the magic
Accepted(data) == data.t = "bytes" /\ BytesAt(data.s, 0, 8) = PARAM_HEADER

\* C6: after a load_from_data(data) that decoded data without raising, from
\* any prior state, the Param equals a fresh Param decoded from data.
C6_LoadEqualsFresh ==
    (last.op = "load_from_data" /\ last.ok /\ Accepted(last.data)) =>
        \E r \in {Param(last.data, "settings")} : r.ok /\ r.v = param

\* a successful load over a Param that had been edited or restructured
C6_Witness ==
    /\ last.op = "load_from_data" /\ last.ok /\ Accepted(last.data)
    /\ last.pre[1] + last.pre[2] > 0
    /\ param.section_list # <<>>

\* the start the claim gives the payload of section i (1-based): data_pointer
\* plus the sum, over the sections before i, of the directory's count * size
ClaimedStart(data, i) ==
    LET RECURSIVE Sum(_)
        Sum(j) == IF j >= i THEN 0
                  ELSE U32At(data, 32 + 8 * (j - 1)) * U32At(data, 36 + 8 * (j - 1))
                       + Sum(j + 1)
    IN U32At(data, 8) + Sum(1)

ClaimedLen(data, i) == U32At(data, 32 + 8 * (i - 1)) * U32At(data, 36 + 8 * (i - 1))

\* the payloads of the sections just decoded are the slices at the claimed starts
PayloadsAtClaimedStart ==
    \A i \in 1..Len(param.section_list) :
        param.section_list[i].raw_data
            = BytesAt(last.data.s, ClaimedStart(last.data.s, i), ClaimedLen(last.data.s, i))

\* C7 as claimed: the payload of section i is the slice starting at
\* data_pointer + sum over j < i of count_j * size_j, and the running cursor
\* advances by count * size after each section, also when the payload of a
\* section is cut short by the end of the buffer.
C7_CursorAdvancesByProduct ==
    JustDecoded =>
        /\ PayloadsAtClaimedStart
        /\ \A i \in 1..(Len(last.cursor) - 1) :
              last.cursor[i + 1] = last.cursor[i] + ClaimedLen(last.data.s, i)

\* C7 as the code has it: the payload of section i is the slice starting at
\* data_pointer + sum over j < i of count_j * size_j, cut at the end of the
\* buffer; the running cursor starts at data_pointer and advances after each
\* section by the length of the payload read, which is count * size unless
\* the end of the buffer cut the payload short.
C7_CursorAdvancesByPayload ==
    JustDecoded =>
        /\ Len(last.cursor) = Len(param.section_list) + 1
        /\ last.cursor[1] = U32At(last.data.s, 8)
        /\ PayloadsAtClaimedStart
        /\ \A i \in 1..(Len(last.cursor) - 1) :
              /\ last.cursor[i + 1] = last.cursor[i] + Len(param.section_list[i].raw_data)
              /\ (ClaimedStart(last.data.s, i) + ClaimedLen(last.data.s, i)
                    <= Len(last.data.s))
                 => last.cursor[i + 1] = last.cursor[i] + ClaimedLen(last.data.s, i)

\* a decode whose first section was cut short and was followed by another
C7_Witness ==
    /\ JustDecoded
    /\ Len(param.section_list) = 2
    /\ Len(param.section_list[1].raw_data) < ClaimedLen(last.data.s, 1)
    /\ Len(param.section_list[1].raw_data) > 0

\* C8 as claimed: in every Section reached by decoding, entry_amount is the
\* number of entries and every Entry's raw bytes are entry_size long.
C8_EntriesHaveEntrySize ==
    \A i \in 1..Len(param.section_list) :
        /\ param.section_list[i].entry_amount = Len(param.section_list[i].entry_list)
        /\ \A j \in 1..Len(param.section_list[i].entry_list) :
              Len(param.section_list[i].entry_list[j].raw_data)
                  = param.section_list[i].entry_size

\* C8 as the code has it: entry_amount is the number of entries, and entry j
\* (0-based) holds the bytes of the payload from j * entry_size on, entry_size
\* of them when the payload has that many left and otherwise the
\* max(0, len(payload) - j * entry_size) that remain.
C8_EntriesAreClampedSlices ==
    \A i \in 1..Len(param.section_list) :
        /\ param.section_list[i].entry_amount = Len(param.section_list[i].entry_list)
        /\ \A j \in 1..Len(param.section_list[i].entry_list) :
              /\ param.section_list[i].entry_list[j].raw_data
                    = BytesAt(param.section_list[i].raw_data,
                              (j - 1) * param.section_list[i].entry_size,
                              param.section_list[i].entry_size)
              /\ Len(param.section_list[i].entry_list[j].raw_data)
                    = Max(0, Min(param.section_list[i].entry_size,
                                 Len(param.section_list[i].raw_data)
                                 - (j - 1) * param.section_list[i].entry_size))

\* a decoded section with an entry shorter than entry_size, and one of full size
C8_Witness ==
    /\ JustDecoded
    /\ \E i \in 1..Len(param.section_list) :
        \E j \in 1..Len(param.section_list[i].entry_list) :
            /\ Len(param.section_list[i].entry_list[j].raw_data) > 0
            /\ Len(param.section_list[i].entry_list[j].raw_data)
                  < param.section_list[i].entry_size
    /\ \E i \in 1..Len(param.section_list) :
        \E j \in 1..Len(param.section_list[i].entry_list) :
            Len(param.section_list[i].entry_list[j].raw_data)
                = param.section_list[i].entry_size

(***************************************************************************)
(* Properties of one Field (checked under SpecField)                       *)
(***************************************************************************)
\* the bytes b cut to n bytes, or filled up to n bytes with zero bytes
FitTo(b, n) ==
    IF Len(b) >= n THEN SubSeq(b, 1, n) ELSE b \o [k \in 1..(n - Len(b)) |-> 0]

\* C11: for a Field of type str whose descriptor has byte size n,
\* Field.to_bytes() returns exactly n bytes for every text value: the UTF-8
\* encoding followed by zero bytes when it is shorter than n, and the encoding
\* cut to n bytes when it is longer.
C11_StrFieldExactSize ==
    (din.op = "Field.to_bytes" /\ din.type = "str" /\ dout.v.value.t = "str") =>
        out = Ok(PyBytes(FitTo(Utf8Encode(dout.v.value.s), din.size)))

\* the numeric type tags, with the width and signedness the tag names
NumericTags == {"uint", "int", "ushort", "short", "uchar", "char"}
TagWidth(tag) == CASE tag \in {"uint", "int"} -> 4
                   [] tag \in {"ushort", "short"} -> 2
                   [] OTHER -> 1
TagSigned(tag) == tag \in {"int", "short", "char"}

\* the little-endian value of the bytes b, unsigned
UnsignedOf(b) ==
    LET RECURSIVE Go(_)
        Go(k) == IF k > Len(b) THEN 0 ELSE b[k] + 256 * Go(k + 1)
    IN Go(1)

\* the two's-complement value of the bytes b; the bytes of the model keep a
\* 4-byte value below 2^31, where it is its unsigned value
SignedOf(b) ==
    IF Len(b) < 4 /\ b[Len(b)] >= 128
    THEN UnsignedOf(b) - (IF Len(b) = 1 THEN 256 ELSE 65536)
    ELSE UnsignedOf(b)

\* C12: Field decode and Field.to_bytes pair each numeric type tag with one
\* width and one signedness in both directions: uint/ushort/uchar decode to
\* the unsigned value of their 4/2/1 raw bytes, int/short/char to the
\* two's-complement signed value, and to_bytes of the decoded value gives the
\* same 4/2/1 bytes.
C12_SymmetricPairing ==
    /\ (din.op = "Field" /\ din.type \in NumericTags
        /\ Len(din.buf) = TagWidth(din.type)) =>
            /\ dout.ok
            /\ dout.v.value = PyInt(IF TagSigned(din.type) THEN SignedOf(din.buf)
                                    ELSE UnsignedOf(din.buf))
    /\ (din.op = "Field.to_bytes" /\ ~din.edited /\ din.type \in NumericTags
        /\ Len(din.buf) = TagWidth(din.type)) =>
            out = Ok(PyBytes(din.buf))

====
